---- MODULE Spec2Model ----
(***************************************************************************)
(* A model of the t-digest aggregate of src/src/tdigest.rs: the transition *)
(* state (pending buffer + digest), the aggregate's transition, combine,   *)
(* serialize, deserialize and final functions, and the flat output type.   *)
(*                                                                         *)
(* The TDigest/Centroid engine (crate `tdigest`) and the bincode wire      *)
(* format are not part of src/; they are modelled from spec.md sections    *)
(* 3, 4.2, 4.3 and 6.                                                      *)
(*                                                                         *)
(* f64 values are modelled as exact rationals n/d (kind "num"), plus NaN   *)
(* and the subnormals that appear when an integer word is read as an f64.  *)
(***************************************************************************)
EXTENDS Integers, Sequences, FiniteSets, TLC

(***************************************************************************)
(* Bounds of the model.                                                    *)
(***************************************************************************)
\* largest `size` argument the host passes to tdigest_trans (0 is tried too)
MaxSize == 2
\* total number of non-NULL observations the host feeds in one run
MaxObs == 3

\* the transition states the host holds at once
Slots == {1, 2}

Sizes == 0..MaxSize

(***************************************************************************)
(* f64                                                                     *)
(***************************************************************************)
Abs(x) == IF x < 0 THEN -x ELSE x

RECURSIVE Gcd(_, _)
Gcd(a, b) == IF b = 0 THEN a ELSE Gcd(b, a % b)

\* the f64 n/d, d > 0, in lowest terms
Num(n, d) == LET g == Gcd(Abs(n), d) IN [k |-> "num", n |-> n \div g, d |-> d \div g]

F(n) == Num(n, 1)

NaN == [k |-> "nan", n |-> 0, d |-> 1]

\* the subnormal f64 whose bit pattern is the integer n >= 1
Subnormal(n) == [k |-> "sub", n |-> n, d |-> 1]

Add(x, y) == Num(x.n * y.d + y.n * x.d, x.d * y.d)

Mul(x, y) == Num(x.n * y.n, x.d * y.d)

\* x / y for y > 0
Div(x, y) == Num(x.n * y.d, x.d * y.n)

Lt(x, y) == x.n * y.d < y.n * x.d

Le(x, y) == x.n * y.d <= y.n * x.d

MinF(x, y) == IF Lt(y, x) THEN y ELSE x

MaxF(x, y) == IF Lt(x, y) THEN y ELSE x

\* the observations the host supplies (finite f64 values)
Values == {F(-1), F(0)}

RECURSIVE SumF(_)
SumF(s) == IF s = <<>> THEN F(0) ELSE Add(Head(s), SumF(Tail(s)))

RECURSIVE MinSeq(_)
MinSeq(s) == IF Len(s) = 1 THEN s[1] ELSE MinF(s[1], MinSeq(Tail(s)))

RECURSIVE MaxSeq(_)
MaxSeq(s) == IF Len(s) = 1 THEN s[1] ELSE MaxF(s[1], MaxSeq(Tail(s)))

(***************************************************************************)
(* Centroid and TDigest (crate tdigest; spec.md 3, 4.2, 4.3)               *)
(***************************************************************************)
Centroid(mean, weight) == [mean |-> mean, weight |-> weight]

\* TDigest::new(centroids, sum, count, max, min, max_size)
TDigestNew(cents, sum, count, max, min, max_size) ==
    [centroids |-> cents, sum |-> sum, count |-> count,
     min |-> min, max |-> max, max_size |-> max_size]

\* mutant: every capacity is accepted
ValidCapacity_any(size) == size >= 0

\* spec.md 7: a capacity of zero is a configuration error
ValidCapacity(size) == size >= 1

\* TDigest::new_with_size, for a valid capacity
new_with_size(size) == TDigestNew(<<>>, F(0), F(0), NaN, NaN, size)

\* mutant: the limit lags one cluster behind, so it reaches the whole count
\* only after C clusters have been closed
KToQNum_lagging(k, C) ==
    IF 2 * (k - 1) >= C THEN C * C - 2 * (C - k + 1) * (C - k + 1) ELSE 2 * (k - 1) * (k - 1)

\* numerator of the scale function's quantile limit q(k/C), over C*C
KToQNum(k, C) == IF 2 * k >= C THEN C * C - 2 * (C - k) * (C - k) ELSE 2 * k * k

\* adding the next point keeps the cluster within the bound of the scale function
WithinLimit(wsf, k, C, count) == Le(Mul(wsf, F(C * C)), Mul(count, F(KToQNum(k, C))))

\* the centroid a closed cluster becomes
Emit(curr) == Centroid(Div(curr.sum, curr.weight), curr.weight)

\* the walk of Digestion over the sorted points pts[i..]
RECURSIVE Walk(_, _, _, _, _, _, _, _)
Walk(pts, i, curr, wsf, k, C, count, acc) ==
    IF i > Len(pts) THEN Append(acc, Emit(curr))
    ELSE LET next == pts[i]
             w == Add(wsf, next.weight)
         IN IF WithinLimit(w, k, C, count)
            THEN Walk(pts, i + 1,
                      [sum |-> Add(curr.sum, Mul(next.mean, next.weight)),
                       weight |-> Add(curr.weight, next.weight)],
                      w, k, C, count, acc)
            ELSE Walk(pts, i + 1,
                      [sum |-> Mul(next.mean, next.weight), weight |-> next.weight],
                      w, k + 1, C, count, Append(acc, Emit(curr)))

\* Digestion: sorted points to a size-bounded centroid sequence
Compress(pts, C, count) ==
    IF pts = <<>> THEN <<>>
    ELSE Walk(pts, 2, [sum |-> Mul(pts[1].mean, pts[1].weight), weight |-> pts[1].weight],
              pts[1].weight, 1, C, count, <<>>)

\* stable insertion of point p into the sequence s sorted by mean
RECURSIVE InsertPoint(_, _)
InsertPoint(s, p) ==
    IF s = <<>> THEN <<p>>
    ELSE IF Lt(p.mean, Head(s).mean) THEN <<p>> \o s
    ELSE <<Head(s)>> \o InsertPoint(Tail(s), p)

\* ascending mean, ties by input index
RECURSIVE SortPoints(_, _)
SortPoints(acc, s) == IF s = <<>> THEN acc ELSE SortPoints(InsertPoint(acc, Head(s)), Tail(s))

\* TDigest::merge_unsorted(&self, values) -> TDigest: returns the new digest,
\* leaves self as it was
merge_unsorted(dg, vals) ==
    IF vals = <<>> THEN dg
    ELSE LET pts == SortPoints(dg.centroids, [i \in 1..Len(vals) |-> Centroid(vals[i], F(1))])
             count == Add(dg.count, F(Len(vals)))
         IN TDigestNew(Compress(pts, dg.max_size, count),
                       Add(dg.sum, SumF(vals)),
                       count,
                       IF dg.count.n > 0 THEN MaxF(dg.max, MaxSeq(vals)) ELSE MaxSeq(vals),
                       IF dg.count.n > 0 THEN MinF(dg.min, MinSeq(vals)) ELSE MinSeq(vals),
                       dg.max_size)

RECURSIVE ConcatCentroids(_)
ConcatCentroids(ds) == IF ds = <<>> THEN <<>> ELSE Head(ds).centroids \o ConcatCentroids(Tail(ds))

Max2(a, b) == IF a < b THEN b ELSE a

\* TDigest::merge_digests(digests), for two digests
merge_digests(ds) ==
    LET ne == SelectSeq(ds, LAMBDA d : d.count.n > 0)
        cap == Max2(ds[1].max_size, ds[2].max_size)
        count == Add(ds[1].count, ds[2].count)
    IN IF ne = <<>> THEN new_with_size(cap)
       ELSE TDigestNew(Compress(SortPoints(<<>>, ConcatCentroids(ds)), cap, count),
                       Add(ds[1].sum, ds[2].sum),
                       count,
                       MaxSeq([i \in 1..Len(ne) |-> ne[i].max]),
                       MinSeq([i \in 1..Len(ne) |-> ne[i].min]),
                       cap)

(***************************************************************************)
(* TDigestTransState (src/src/tdigest.rs 24-46)                            *)
(***************************************************************************)
\* Option<T>: None is <<>>, Some(x) is <<x>>
None == <<>>

Some(x) == <<x>>

TDigestTransState(buffer, digested) == [buffer |-> buffer, digested |-> digested]

\* mutant: the buffer is taken but the merged digest is not stored
digest_dropsBuffer(s) == TDigestTransState(<<>>, s.digested)

\* mutant: the buffer is merged but not taken
digest_keepsBuffer(s) ==
    IF s.buffer = <<>> THEN s
    ELSE TDigestTransState(s.buffer, merge_unsorted(s.digested, s.buffer))

\* TDigestTransState::digest
digest(s) ==
    IF s.buffer = <<>> THEN s
    ELSE TDigestTransState(<<>>, merge_unsorted(s.digested, s.buffer))

\* mutant: the buffer is flushed only once it is longer than the capacity
push_late(s, value) ==
    LET t == TDigestTransState(Append(s.buffer, value), s.digested)
    IN IF Len(t.buffer) > t.digested.max_size THEN digest(t) ELSE t

\* TDigestTransState::push
push(s, value) ==
    LET t == TDigestTransState(Append(s.buffer, value), s.digested)
    IN IF Len(t.buffer) >= t.digested.max_size THEN digest(t) ELSE t

(***************************************************************************)
(* The aggregate's functions, as functions of their arguments.  Each       *)
(* returns what the call returns and the error it raises ("" for none).    *)
(***************************************************************************)
\* mutant: the state is created before the value is looked at
tdigest_trans_nullCreates(state, size, value) ==
    IF state = None /\ ~ValidCapacity(size)
    THEN [ret |-> None, err |-> "configuration"]
    ELSE LET s == IF state = None
                  THEN TDigestTransState(<<>>, new_with_size(size))
                  ELSE state[1]
         IN [ret |-> Some(IF value = None THEN s ELSE push(s, value[1])), err |-> ""]

\* mutant: an existing state takes the capacity of the call's size argument
tdigest_trans_resizes(state, size, value) ==
    IF value = None THEN [ret |-> state, err |-> ""]
    ELSE IF state = None /\ ~ValidCapacity(size)
         THEN [ret |-> None, err |-> "configuration"]
    ELSE LET s == IF state = None
                  THEN TDigestTransState(<<>>, new_with_size(size))
                  ELSE TDigestTransState(state[1].buffer,
                                         [state[1].digested EXCEPT !.max_size = size])
         IN [ret |-> Some(push(s, value[1])), err |-> ""]

tdigest_trans(state, size, value) ==
    IF value = None THEN [ret |-> state, err |-> ""]
    ELSE IF state = None /\ ~ValidCapacity(size)
         THEN [ret |-> None, err |-> "configuration"]
    ELSE LET s == IF state = None
                  THEN TDigestTransState(<<>>, new_with_size(size))
                  ELSE state[1]
         IN [ret |-> Some(push(s, value[1])), err |-> ""]

\* mutant: a lone state is flushed before it is returned
tdigest_combine_flushesLone(state1, state2) ==
    IF state1 = None /\ state2 = None THEN None
    ELSE IF state1 = None THEN Some(digest(state2[1]))
    ELSE IF state2 = None THEN Some(digest(state1[1]))
    ELSE Some(TDigestTransState(<<>>, merge_digests(<<state1[1].digested, state2[1].digested>>)))

\* mutant: the pending values are carried over instead of being left out
tdigest_combine_keepsBuffers(state1, state2) ==
    IF state1 = None /\ state2 = None THEN None
    ELSE IF state1 = None THEN state2
    ELSE IF state2 = None THEN state1
    ELSE Some(TDigestTransState(state1[1].buffer \o state2[1].buffer,
                                merge_digests(<<state1[1].digested, state2[1].digested>>)))

\* mutant: state1's pending values are merged in, state2's are not
tdigest_combine_flushesFirst(state1, state2) ==
    IF state1 = None /\ state2 = None THEN None
    ELSE IF state1 = None THEN state2
    ELSE IF state2 = None THEN state1
    ELSE Some(TDigestTransState(<<>>, merge_digests(<<merge_unsorted(state1[1].digested, state1[1].buffer),
                                                      state2[1].digested>>)))

tdigest_combine(state1, state2) ==
    IF state1 = None /\ state2 = None THEN None
    ELSE IF state1 = None THEN state2
    ELSE IF state2 = None THEN state1
    ELSE LET s1 == state1[1]
             s2 == state2[1]
             digvec == <<s1.digested, s2.digested>>
             \* lines 101-106: merge_unsorted returns a new digest, which the
             \* code drops; digvec keeps the two clones
             unused1 == IF s1.buffer # <<>> THEN merge_unsorted(digvec[1], s1.buffer) ELSE digvec[1]
             unused2 == IF s2.buffer # <<>> THEN merge_unsorted(digvec[2], s2.buffer) ELSE digvec[2]
         IN Some(TDigestTransState(<<>>, merge_digests(digvec)))

\* mutant: state1 is flushed in place and returned as the result
tdigest_combine_inputs_inPlace(state1, state2) ==
    [state1 |-> IF state1 = None THEN None ELSE Some(digest(state1[1])),
     state2 |-> state2,
     shared |-> IF state1 = None THEN {} ELSE {1}]

\* tdigest_combine, lines 95-113: what the call leaves in *state1 and in
\* *state2, and which of the two the Internal it returns points into.  Every
\* arm reads its arguments through clone() only and wraps a new value with
\* into().
tdigest_combine_inputs(state1, state2) ==
    [state1 |-> state1, state2 |-> state2, shared |-> {}]

(***************************************************************************)
(* bincode and the varlena frame.  A word is 8 bytes; it is kept as its    *)
(* two readings: u, the u64 it is (Huge for the bit pattern of a normal    *)
(* f64 or NaN, all of which are at least 2^52), and f, the f64 it is.      *)
(***************************************************************************)
WordBytes == 8

VARHDRSZ == 4

Huge == 1073741824

U64Word(n) == [u |-> n, f |-> IF n = 0 THEN F(0) ELSE Subnormal(n)]

F64Word(x) ==
    IF x.k = "sub" THEN U64Word(x.n)
    ELSE IF x.k = "num" /\ x.n = 0 THEN U64Word(0)
    ELSE [u |-> Huge, f |-> x]

RECURSIVE EncCentroids(_)
EncCentroids(cs) ==
    IF cs = <<>> THEN <<>>
    ELSE <<F64Word(Head(cs).mean), F64Word(Head(cs).weight)>> \o EncCentroids(Tail(cs))

\* Serialize for TDigest: its fields in declaration order
EncTDigest(d) ==
    <<U64Word(Len(d.centroids))>> \o EncCentroids(d.centroids)
    \o <<F64Word(d.sum), F64Word(d.count), F64Word(d.min), F64Word(d.max), U64Word(d.max_size)>>

\* derive(Serialize) of TDigestTransState: buffer is skip_serializing
EncTransState(s) == EncTDigest(s.digested)

\* derive(Deserialize) of TDigestTransState: buffer, then digested, read from
\* the first avail words of w.  Reading past them is an error.
DecTransState(w, avail) ==
    IF avail < 1 \/ w[1].u >= Huge \/ 1 + w[1].u + 1 > avail
    THEN [ok |-> FALSE, state |-> None]
    ELSE LET bl == w[1].u
             p == 1 + bl + 1
             nc == w[p].u
         IN IF nc >= Huge \/ p + 2 * nc + 5 > avail
            THEN [ok |-> FALSE, state |-> None]
            ELSE LET q == p + 2 * nc
                 IN [ok |-> TRUE,
                     state |-> Some(TDigestTransState(
                         [i \in 1..bl |-> w[1 + i].f],
                         TDigestNew([i \in 1..nc |-> Centroid(w[p + 2 * i - 1].f, w[p + 2 * i].f)],
                                    w[q + 1].f, w[q + 2].f, w[q + 4].f, w[q + 3].f,
                                    w[q + 5].u)))]

\* what the Datum can hold once the Vec behind it has been freed (line 137)
FreedWires ==
    {[varsize |-> VARHDRSZ, data |-> <<>>],
     [varsize |-> VARHDRSZ + 7 * WordBytes, data |-> [i \in 1..7 |-> U64Word(0)]]}

\* mutant: the state is encoded without being flushed
tdigest_serialize_noFlush(state) ==
    LET data == EncTransState(state)
    IN [state |-> state, bytes |-> [varsize |-> WordBytes * Len(data), data |-> data]]

tdigest_serialize(state) ==
    LET s == digest(state)
        data == EncTransState(s)
        size == WordBytes * Len(data)
    IN [state |-> s, bytes |-> [varsize |-> size, data |-> data]]

tdigest_deserialize(bytes) ==
    LET len == bytes.varsize - VARHDRSZ
        r == DecTransState(bytes.data, len \div WordBytes)
    IN [ret |-> r.state, err |-> IF r.ok THEN "" ELSE "deserialization"]

(***************************************************************************)
(* TimescaleTDigest (pg_type, lines 156-166), tdigest_final, to_tdigest    *)
(***************************************************************************)
Min2(a, b) == IF a < b THEN a ELSE b

\* f64 as u32 (a saturating, truncating cast) of values below 2^32
F64AsU32(x) == IF x.k # "num" \/ x.n < 0 THEN 0 ELSE x.n \div x.d

U32AsF64(n) == F(n)

TsTDigestData(buckets, count, sum, min, max, means, weights) ==
    [buckets |-> buckets, count |-> count, sum |-> sum, min |-> min, max |-> max,
     means |-> means, weights |-> weights]

tdigest_final(state) ==
    IF state = None THEN [state |-> None, kind |-> "null", data |-> None]
    ELSE LET s == digest(state[1])
             buckets == s.digested.max_size
             count == F64AsU32(s.digested.count)
             vec_size == Min2(buckets, count)
             cents == s.digested.centroids
         IN IF Len(cents) > vec_size
            THEN [state |-> Some(s), kind |-> "panic", data |-> None]
            ELSE [state |-> Some(s), kind |-> "digest",
                  data |-> Some(TsTDigestData(buckets, count, s.digested.sum,
                                s.digested.min, s.digested.max,
                                [i \in 1..vec_size |-> IF i <= Len(cents) THEN cents[i].mean ELSE F(0)],
                                [i \in 1..vec_size |-> IF i <= Len(cents) THEN F64AsU32(cents[i].weight) ELSE 0]))]

to_tdigest(t) ==
    LET size == Min2(t.buckets, t.count)
    IN TDigestNew([i \in 1..size |-> Centroid(t.means[i], U32AsF64(t.weights[i]))],
                  t.sum, U32AsF64(t.count), t.max, t.min, t.buckets)

\* mutant: the division is not guarded (0.0 / 0.0 is NaN)
tdigest_mean_unguarded(t) ==
    IF t.count = 0 THEN NaN ELSE Div(t.sum, U32AsF64(t.count))

tdigest_mean(t) ==
    IF t.count > 0 THEN Div(t.sum, U32AsF64(t.count)) ELSE F(0)

(***************************************************************************)
(* The state machine: the host holds a transition state per slot and calls *)
(* the aggregate's functions on them.                                      *)
(***************************************************************************)
VARIABLES
    st,      \* st[i]: Option<Internal<TDigestTransState>>, the state slot i holds
    obs,     \* obs[i]: the non-NULL observations slot i's state stands for (history)
    pure,    \* pure[i]: slot i's state was built by tdigest_trans calls only (history)
    created, \* created[i]: the size argument of the tdigest_trans call that created
             \* slot i's state, 0 for no state or a state tdigest_combine returned
             \* (history)
    last     \* the last call: its name, arguments, results and error; in1, in2
             \* and shared are what tdigest_combine left of its arguments; obs
             \* and pure are those of the states it was given (history)

vars == <<st, obs, pure, created, last>>

NoCall ==
    [op |-> "init", a |-> None, b |-> None, size |-> 0, value |-> None,
     ret |-> None, err |-> "", written |-> None, bytes |-> None, data |-> None,
     in1 |-> None, in2 |-> None, shared |-> {}, res |-> None,
     obs |-> <<>>, pure |-> TRUE, created |-> 0]

Init ==
    /\ st = [i \in Slots |-> None]
    /\ obs = [i \in Slots |-> <<>>]
    /\ pure = [i \in Slots |-> TRUE]
    /\ created = [i \in Slots |-> 0]
    /\ last = NoCall

TotalObs == Len(obs[1]) + Len(obs[2])

SortedObs(s) == SortSeq(s, Lt)

\* tdigest_trans(state, size, value): the state is updated in place.  The
\* size argument is read only when the call has to create the state; on an
\* existing state the host passes MaxSize, whatever size created it.
Trans(i, size, value) ==
    /\ value # None => TotalObs < MaxObs
    /\ st[i] # None => size = MaxSize
    /\ LET r == tdigest_trans(st[i], size, value)
           o == IF r.err = "" /\ value # None THEN SortedObs(Append(obs[i], value[1])) ELSE obs[i]
       IN /\ st' = [st EXCEPT ![i] = r.ret]
          /\ obs' = [obs EXCEPT ![i] = o]
          /\ created' = [created EXCEPT ![i] = IF st[i] = None /\ r.ret # None
                                                THEN size ELSE created[i]]
          /\ last' = [NoCall EXCEPT !.op = "trans", !.a = st[i], !.size = size, !.value = value,
                                    !.ret = r.ret, !.err = r.err, !.obs = o, !.pure = pure[i],
                                    !.created = created[i]]
    /\ UNCHANGED pure

\* tdigest_combine(state1, state2): the host keeps the result in place of
\* state1 and drops state2
Combine(i, j) ==
    /\ i # j
    /\ LET r == tdigest_combine(st[i], st[j])
           e == tdigest_combine_inputs(st[i], st[j])
           o == SortedObs(obs[i] \o obs[j])
       IN /\ st' = [st EXCEPT ![i] = r, ![j] = None]
          /\ obs' = [obs EXCEPT ![i] = o, ![j] = <<>>]
          /\ pure' = [pure EXCEPT ![i] = (r = None), ![j] = TRUE]
          /\ created' = [created EXCEPT ![i] = 0, ![j] = 0]
          /\ last' = [NoCall EXCEPT !.op = "combine", !.a = st[i], !.b = st[j], !.ret = r,
                                    !.in1 = e.state1, !.in2 = e.state2, !.shared = e.shared,
                                    !.obs = o, !.pure = (pure[i] /\ pure[j])]

\* tdigest_serialize(state): flushes the state in place; the Datum returned
\* points into a Vec freed at return, so the host reads the bytes written or
\* whatever the allocation then holds
Serialize(i) ==
    /\ st[i] # None
    /\ LET r == tdigest_serialize(st[i][1])
       IN /\ st' = [st EXCEPT ![i] = Some(r.state)]
          /\ \E w \in {r.bytes} \cup FreedWires :
                last' = [NoCall EXCEPT !.op = "serialize", !.a = st[i], !.ret = Some(r.state),
                                       !.written = Some(r.bytes), !.bytes = Some(w),
                                       !.obs = obs[i], !.pure = pure[i],
                                       !.created = created[i]]
    /\ UNCHANGED <<obs, pure, created>>

\* tdigest_deserialize(bytes) on the bytea the host got from tdigest_serialize
Deserialize ==
    /\ last.op = "serialize"
    /\ LET r == tdigest_deserialize(last.bytes[1])
       IN last' = [NoCall EXCEPT !.op = "deserialize", !.a = last.ret, !.written = last.written,
                                 !.bytes = last.bytes, !.ret = r.ret, !.err = r.err,
                                 !.obs = last.obs, !.pure = last.pure,
                                 !.created = last.created]
    /\ UNCHANGED <<st, obs, pure, created>>

\* tdigest_final(state): flushes the state in place
Final(i) ==
    /\ LET r == tdigest_final(st[i])
       IN /\ st' = [st EXCEPT ![i] = r.state]
          /\ last' = [NoCall EXCEPT !.op = "final", !.a = st[i], !.ret = r.state, !.data = r.data,
                                    !.err = IF r.kind = "panic" THEN "index out of bounds" ELSE "",
                                    !.obs = obs[i], !.pure = pure[i],
                                    !.created = created[i]]
    /\ UNCHANGED <<obs, pure, created>>

\* tdigest_mean(digest) on the digest the last tdigest_final returned
Mean ==
    /\ last.op = "final"
    /\ last.data # None
    /\ last' = [NoCall EXCEPT !.op = "mean", !.data = last.data,
                              !.res = Some(tdigest_mean(last.data[1])),
                              !.obs = last.obs, !.pure = last.pure,
                              !.created = last.created]
    /\ UNCHANGED <<st, obs, pure, created>>

Next ==
    \/ \E i \in Slots, size \in Sizes, v \in Values : Trans(i, size, Some(v))
    \/ \E i \in Slots, size \in Sizes : Trans(i, size, None)
    \/ \E i \in Slots, j \in Slots : Combine(i, j)
    \/ \E i \in Slots : Serialize(i)
    \/ Deserialize
    \/ \E i \in Slots : Final(i)
    \/ Mean

Spec == Init /\ [][Next]_vars

(***************************************************************************)
(* Properties                                                              *)
(***************************************************************************)
BothPresent == last.op = "combine" /\ last.a # None /\ last.b # None

\* C1: tdigest_combine of two present states built by tdigest_trans calls
\* accounts for every observation pushed into either, the buffered ones
\* included: the result's count is the sum of both digests' counts and both
\* buffers' lengths, its min/max are the global min/max, and finalizing it
\* gives the count/sum/min/max of all the observations.
C1_CombineAccountsForAll ==
    (BothPresent /\ last.pure) =>
        LET A == last.a[1]
            B == last.b[1]
            d == last.ret[1].digested
            f == tdigest_final(last.ret)
        IN /\ d.count = Add(Add(A.digested.count, F(Len(A.buffer))),
                            Add(B.digested.count, F(Len(B.buffer))))
           /\ d.count = F(Len(last.obs))
           /\ d.min = MinSeq(last.obs)
           /\ d.max = MaxSeq(last.obs)
           /\ f.data # None
           /\ f.data[1].count = Len(last.obs)
           /\ f.data[1].sum = SumF(last.obs)

\* C2: tdigest_deserialize of the bytes tdigest_serialize wrote succeeds and
\* yields the flushed state: the same digest, and an empty buffer.
C2_SerializeRoundTrip ==
    (last.op = "deserialize" /\ last.bytes = last.written) =>
        /\ last.err = ""
        /\ last.ret = last.a

\* C3: in a state built by tdigest_trans calls only, the buffer's length plus
\* the digest's count is the number of non-NULL values pushed, and the digest
\* tdigest_final emits has that count and leaves no buffer behind.
C3_CountsEveryPush ==
    /\ \A i \in Slots :
          pure[i] =>
             IF st[i] = None THEN obs[i] = <<>>
             ELSE Add(st[i][1].digested.count, F(Len(st[i][1].buffer))) = F(Len(obs[i]))
    /\ (last.op = "final" /\ last.pure /\ last.a # None /\ last.err = "") =>
          /\ last.data # None
          /\ last.data[1].count = Len(last.obs)
          /\ last.ret[1].buffer = <<>>

\* C3's case: a final call on a trans-built state that still had a buffer and
\* more observations than its capacity
C3_Witness ==
    /\ last.op = "final" /\ last.pure /\ last.a # None /\ last.data # None
    /\ last.a[1].buffer # <<>>
    /\ Len(last.obs) > last.a[1].digested.max_size

\* C4: to_tdigest of what tdigest_final returned is the finalized digest:
\* the same centroids, capacity, count, sum, min and max.
C4_FinalRoundTrip ==
    (last.op = "final" /\ last.data # None) =>
        to_tdigest(last.data[1]) = last.ret[1].digested

\* C5: tdigest_final returns None when no non-NULL observation was received,
\* and every digest it returns has count >= 1.
C5_NoEmptyDigest ==
    last.op = "final" =>
        /\ last.obs = <<>> => last.data = None
        /\ last.data # None => last.data[1].count >= 1

C7_SerializeFlushesFirst ==
    last.op = "serialize" =>
        LET a == last.a[1]
            r == last.ret[1]
            w == last.written[1].data
            total == Add(a.digested.count, F(Len(a.buffer)))
        IN /\ r.buffer = <<>>
           /\ r.digested.count = total
           /\ Len(w) = 2 * Len(r.digested.centroids) + 6
           /\ w[1].u = Len(r.digested.centroids)
           /\ w[Len(w) - 3] = F64Word(total)
           /\ \E i \in Slots : st[i] = last.ret

C7_Witness ==
    last.op = "serialize" /\ last.a[1].buffer # <<>> /\ last.a[1].digested.count.n > 0

\* C8: the absent state is the identity of tdigest_combine: with one state
\* absent the result is the other, buffer and digest alike; with both absent
\* it is None.
C8_AbsentIsIdentity ==
    last.op = "combine" =>
        /\ (last.a = None /\ last.b = None) => last.ret = None
        /\ (last.a = None /\ last.b # None) => last.ret = last.b
        /\ (last.a # None /\ last.b = None) => last.ret = last.a

C8_Witness ==
    /\ last.op = "combine" /\ last.a = None /\ last.b # None
    /\ last.b[1].buffer # <<>> /\ last.ret = last.b

\* C9 as claimed: every state tdigest_combine returns has an empty buffer.
C9_CombineBufferEmpty ==
    (last.op = "combine" /\ last.ret # None) => last.ret[1].buffer = <<>>

\* C9 as amended: the state tdigest_combine returns for two present states
\* has an empty buffer; with exactly one state present the result has that
\* state's buffer.
C9_CombineBufferAmended ==
    last.op = "combine" =>
        /\ BothPresent => last.ret[1].buffer = <<>>
        /\ (last.a # None /\ last.b = None) => last.ret[1].buffer = last.a[1].buffer
        /\ (last.a = None /\ last.b # None) => last.ret[1].buffer = last.b[1].buffer

C9_Witness ==
    BothPresent /\ last.a[1].buffer # <<>> /\ last.b[1].buffer # <<>>

\* count, sum, min and max of the digest tdigest_final gives for a state
Stats(state) ==
    LET f == tdigest_final(state)
    IN IF f.data = None THEN <<f.kind>>
       ELSE <<f.kind, f.data[1].count, f.data[1].sum, f.data[1].min, f.data[1].max>>

C12_CapacityFixed ==
    /\ \A i \in Slots :
          /\ created[i] # 0 =>
                st[i] # None /\ st[i][1].digested.max_size = created[i]
          /\ st[i] # None =>
                digest(st[i][1]).digested.max_size = st[i][1].digested.max_size
    /\ (last.op = "trans" /\ last.a = None /\ last.ret # None) =>
          last.ret[1].digested.max_size = last.size
    /\ (last.op \in {"trans", "serialize", "final"} /\ last.a # None) =>
          /\ last.ret # None
          /\ last.ret[1].digested.max_size = last.a[1].digested.max_size
    /\ (last.op = "final" /\ last.data # None) =>
          /\ last.data[1].buckets = last.a[1].digested.max_size
          /\ last.created # 0 => last.data[1].buckets = last.created

\* tdigest_final on a state that was created with capacity 1 and then given
\* more values by calls with another size argument
C12_Witness ==
    /\ last.op = "final" /\ last.data # None
    /\ last.created = 1 /\ MaxSize # 1
    /\ Len(last.obs) >= 3

\* C13: tdigest_deserialize returns a complete state and no error, or no
\* state and a deserialization error; and it returns a state only for bytes
\* whose length is that of the state's encoding in the layout it reads
\* (buffer, then digest), so bytes of another layout or length are an error.
C13_DecodeAllOrNothing ==
    last.op = "deserialize" =>
        /\ last.err \in {"", "deserialization"}
        /\ (last.err = "") <=> (last.ret # None)
        /\ last.ret # None =>
              LET s == last.ret[1]
                  words == 1 + Len(s.buffer) + 1 + 2 * Len(s.digested.centroids) + 5
              IN last.bytes[1].varsize - VARHDRSZ = WordBytes * words

C15_MeanGuardsZero ==
    last.op = "mean" =>
        /\ last.err = ""
        /\ last.res # None
        /\ last.data[1].count > 0 =>
              /\ last.res[1].k = "num"
              /\ Mul(last.res[1], F(last.data[1].count)) = last.data[1].sum
        /\ last.data[1].count = 0 => last.res[1] = F(0)

\* tdigest_mean was called on a digest with count 0
C15_Witness ==
    last.op = "mean" /\ last.data[1].count = 0 /\ last.res # None

\* C16: every state held has fewer buffered values than its capacity.  A
\* push of a value onto a state (a new one, for a creating call) whose buffer
\* thereby reaches the capacity returns it with an empty buffer and with the
\* buffered values and the new one counted and summed in the digest; a push
\* that does not reach the capacity appends the value and leaves the digest
\* as it was.
C16_BufferBelowCapacity ==
    /\ \A i \in Slots :
          st[i] # None => Len(st[i][1].buffer) < st[i][1].digested.max_size
    /\ (last.op = "trans" /\ last.value # None /\ last.ret # None) =>
          LET cap == last.ret[1].digested.max_size
              buf == IF last.a = None THEN <<>> ELSE last.a[1].buffer
              cnt == IF last.a = None THEN F(0) ELSE last.a[1].digested.count
              sum == IF last.a = None THEN F(0) ELSE last.a[1].digested.sum
              all == Append(buf, last.value[1])
              post == last.ret[1]
          IN /\ Len(post.buffer) < cap
             /\ Len(all) >= cap =>
                   /\ post.buffer = <<>>
                   /\ post.digested.count = Add(cnt, F(Len(all)))
                   /\ post.digested.sum = Add(sum, SumF(all))
                   /\ Le(post.digested.min, MinSeq(all))
                   /\ Le(MaxSeq(all), post.digested.max)
             /\ Len(all) < cap =>
                   /\ post.buffer = all
                   /\ last.a # None => post.digested = last.a[1].digested
                   /\ last.a = None => post.digested.count = F(0)

\* a push that brought a buffer with a value in it to the capacity of a state
\* that had a digest already
C16_Witness ==
    /\ last.op = "trans" /\ last.value # None /\ last.a # None
    /\ last.a[1].buffer # <<>>
    /\ last.a[1].digested.count.n > 0
    /\ last.ret[1].buffer = <<>>

\* C17: for every state held or given to the last call, digest() leaves an
\* empty buffer, changes nothing when the buffer is empty already, and done
\* twice leaves what it leaves done once.  So tdigest_final, which starts with
\* digest(), returns a state with an empty buffer, and returns the state it
\* was given when that state's buffer was empty.
C17_DigestIdempotent ==
    /\ \A x \in {st[i] : i \in Slots} \cup {last.a, last.b} :
          x # None =>
              /\ digest(x[1]).buffer = <<>>
              /\ x[1].buffer = <<>> => digest(x[1]) = x[1]
              /\ digest(digest(x[1])) = digest(x[1])
    /\ (last.op = "final" /\ last.a # None) =>
          /\ last.ret[1].buffer = <<>>
          /\ last.a[1].buffer = <<>> => last.ret = last.a

\* tdigest_final flushed a state that an earlier call had flushed from a
\* buffer shorter than the capacity
C17_Witness ==
    /\ last.op = "final" /\ last.a # None
    /\ last.a[1].buffer = <<>>
    /\ last.a[1].digested.count.n > 0
    /\ last.a[1].digested.max_size > Len(last.obs)
    /\ last.pure

\* C18: the Digest to_tdigest builds from what tdigest_final returned has
\* only centroids of weight above 0, in ascending order of mean, whose weights
\* add up to its count.
C18_DecodedDigestInvariants ==
    (last.op = "final" /\ last.data # None) =>
        LET d == to_tdigest(last.data[1])
            n == Len(d.centroids)
        IN /\ \A i \in 1..n : Lt(F(0), d.centroids[i].weight)
           /\ \A i \in 1..n : \A j \in i..n : Le(d.centroids[i].mean, d.centroids[j].mean)
           /\ SumF([i \in 1..n |-> d.centroids[i].weight]) = d.count

\* C19: tdigest_trans called with a NULL value raises nothing and returns the
\* state it was given, or None when it was given none, and the slot then
\* holds what it held; a slot that was given NULL values only holds no state.
C19_NullIgnored ==
    /\ (last.op = "trans" /\ last.value = None) =>
          /\ last.err = ""
          /\ last.ret = last.a
          /\ \E i \in Slots : st[i] = last.a /\ obs[i] = last.obs
    /\ \A i \in Slots : (pure[i] /\ obs[i] = <<>>) => st[i] = None

\* a NULL value was given to a state with a buffered value and a digest
C19_Witness ==
    /\ last.op = "trans" /\ last.value = None
    /\ last.a # None
    /\ last.a[1].buffer # <<>>
    /\ last.a[1].digested.count.n > 0
====
